---- MODULE Spec2Model ----
(***************************************************************************)
(* Model of the pull-request extraction pipeline (src/src/extract.py) as   *)
(* driven by src/main.py: paginated listing of closed pull requests,       *)
(* per-item filtering, enrichment through the review and check-run         *)
(* endpoints, and the snapshot write.  A second specification, ReviewSpec, *)
(* runs the review fold of getReviews one loop iteration at a time over    *)
(* bounded review lists; CheckSpec applies getCheckStatus to bounded       *)
(* check-run bodies; FilesSpec and TransformSpec run processRawFiles       *)
(* (src/src/transform.py) one directory entry at a time.                   *)
(*                                                                         *)
(* Title and Author are copied from the listing item into the record       *)
(* without influencing control flow; the extraction model carries PRNum,   *)
(* CreatedAt and MergedAt and the three enrichment fields.                 *)
(***************************************************************************)
EXTENDS Integers, Sequences, FiniteSets, TLC

\* ---------------------------------------------------------------- bounds
\* largest total number of items over all pages of the listing
MaxItems == 2
\* largest number of items the server puts on one page
MaxPageLen == 2
\* longest check-run list a check-run response carries
MaxCheckRuns == 2
\* longest review list folded in ReviewSpec
MaxReviews == 3
\* longest check-run list getCheckStatus is applied to in CheckSpec
MaxRuns == 4
\* largest number of entries of data/raw in FilesSpec
MaxFiles == 3
\* largest number of records of the snapshot in TransformSpec
MaxRows == 2

\* the page size main passes to getMergedPRs
PerPage == 100

\* Python's None and a present value: an optional is a sequence of length <= 1
None == <<>>
Some(v) == <<v>>
Val(o) == o[1]

VARIABLES
    token,        \* the GITHUB_TOKEN credential is present
    since, until, \* configured window bounds (a date, or None)
    listing,      \* the server's closed-PR listing: a sequence of non-empty pages
    pc,           \* position of the process
    page,         \* getMergedPRs local: page number
    data,         \* getMergedPRs local: items of the page being iterated
    idx,          \* position of the for loop in data
    prInfo,       \* record under assembly (None when there is none)
    PRs,          \* getMergedPRs local: records assembled so far
    spinner,      \* "idle", "spinning", "ok" (spinner.ok) or "fail" (spinner.fail)
    log,          \* HTTP requests issued and snapshot writes, in order
    rawFiles,     \* snapshots written to data/raw, in order
    transformed,  \* outputs written to data/transformed
    exitCode,     \* None while running, then the process exit status
    reviews,      \* getReviews local: the fetched review list (ReviewSpec)
    ri,           \* getReviews: position of the fold loop (ReviewSpec)
    latestReviewPerUser, \* getReviews local: user -> last state seen
    approved,     \* getReviews result
    numReviewers, \* getReviews result
    checkRuns,    \* getCheckStatus: the "check_runs" entry of the body (CheckSpec)
    checksPassed, \* getCheckStatus result (None before the return)
    rawDir,       \* processRawFiles: the entries of data/raw in listdir order
    fi            \* processRawFiles: position of the loop over the entries

vars == <<token, since, until, listing, pc, page, data, idx, prInfo, PRs,
          spinner, log, rawFiles, transformed, exitCode,
          reviews, ri, latestReviewPerUser, approved, numReviewers,
          checkRuns, checksPassed, rawDir, fi>>

envVars == <<token, since, until, listing>>
reviewVars == <<reviews, ri, latestReviewPerUser, approved, numReviewers>>
checkVars == <<checkRuns, checksPassed>>
dirVars == <<rawDir, fi>>

\* ------------------------------------------------------------ time model
\* A timestamp string "YYYY-MM-DDTHH:MM:SSZ" is a pair of a day and a tick
\* within the day; a date string "YYYY-MM-DD" is a day.  A day has two
\* ticks, midnight and a later one (a scaled-down 86400 seconds).
Ticks == {0, 1}
TicksPerDay == Cardinality(Ticks)

\* the dates since/until may be set to
Dates == {1}

\* the merge timestamps of the listing: on the day before the date, at its
\* midnight, and later on that day
Timestamps ==
    {[day |-> 0, tick |-> 1], [day |-> 1, tick |-> 0], [day |-> 1, tick |-> 1]}

\* datetime.strptime(s, "%Y-%m-%dT%H:%M:%SZ"): instant on the tick axis
ParseTimestamp(ts) == ts.day * TicksPerDay + ts.tick

\* datetime.strptime(s, "%Y-%m-%d"): midnight of that day
ParseDate(d) == d * TicksPerDay

\* ------------------------------------------------------------- the server
MergedVals == {None} \cup {Some(t) : t \in Timestamps}

SeqsUpTo(S, n) == UNION {[1..k -> S] : k \in 0..n}

\* every PR of the listing was created at midnight of day 0, before any
\* merge timestamp
CreatedStamp == Some([day |-> 0, tick |-> 0])

\* the items of a listing, numbered by position: one per merge value
Numbered(ms) ==
    [i \in 1..Len(ms) |->
        [number |-> i, created_at |-> CreatedStamp, merged_at |-> ms[i]]]

RECURSIVE Sum(_)
Sum(cs) == IF cs = <<>> THEN 0 ELSE Head(cs) + Sum(Tail(cs))

\* the ways the server may cut n items into non-empty pages
PageCuts(n) == {cs \in SeqsUpTo(1..MaxPageLen, n) : Sum(cs) = n}

RECURSIVE Paginate(_, _)
Paginate(items, cs) ==
    IF cs = <<>> THEN <<>>
    ELSE <<SubSeq(items, 1, Head(cs))>>
         \o Paginate(SubSeq(items, Head(cs) + 1, Len(items)), Tail(cs))

Listings ==
    {Paginate(Numbered(ms), cs) :
        <<ms, cs>> \in {x \in SeqsUpTo(MergedVals, MaxItems)
                              \X SeqsUpTo(1..MaxPageLen, MaxItems) :
                          x[2] \in PageCuts(Len(x[1]))}}

\* body of GET /pulls?page=p: the p-th page, or [] beyond the last one
PageBody(p) == IF p <= Len(listing) THEN listing[p] ELSE <<>>

Users == {"A", "B"}
ReviewStates == {"APPROVED", "CHANGES_REQUESTED", "COMMENTED"}
Reviews == [user : Users, state : ReviewStates]
\* a check run's conclusion; "null" is the JSON null of a run in progress
Conclusions == {"success", "failure", "null"}

\* bodies of the review responses in the pipeline: no review or a single one
\* (longer lists are folded in ReviewSpec)
ReviewBodies == {<<>>} \cup {<<r>> : r \in Reviews}

\* ---------------------------------------------------------- getReviews
EmptyDict == [x \in {} |-> ""]

\* latestReviewPerUser[user] = review["state"]
DictSetFirstWins(d, k, v) ==
    IF k \in DOMAIN d THEN d
    ELSE [x \in (DOMAIN d) \cup {k} |-> IF x = k THEN v ELSE d[x]]

DictSet(d, k, v) ==
    [x \in (DOMAIN d) \cup {k} |-> IF x = k THEN v ELSE d[x]]

AnyApprovedAll(d) == \A u \in DOMAIN d : d[u] = "APPROVED"

\* any(state == "APPROVED" for state in latestReviewPerUser.values())
AnyApproved(d) == \E u \in DOMAIN d : d[u] = "APPROVED"

DictLenApprovers(d) == Cardinality({u \in DOMAIN d : d[u] = "APPROVED"})

\* len(latestReviewPerUser)
DictLen(d) == Cardinality(DOMAIN d)

RECURSIVE FoldReviews(_, _)
FoldReviews(d, rs) ==
    IF rs = <<>> THEN d
    ELSE FoldReviews(DictSet(d, Head(rs).user, Head(rs).state), Tail(rs))

\* getReviews on a fetched list: <<approved, numReviewers>>
getReviews(rs) ==
    LET d == FoldReviews(EmptyDict, rs)
    IN  <<AnyApproved(d), DictLen(d)>>

\* ------------------------------------------------------- getCheckStatus
getCheckStatusFailOpen(runs) ==
    \A i \in 1..Len(runs) : runs[i] = "success"

\* data.get("check_runs", []): the entry of the body, [] when it is absent
CheckRunsOf(body) == IF body = None THEN <<>> ELSE Val(body)

\* the test on the list and the all(...) over the conclusions
getCheckStatus(runs) ==
    IF runs = <<>> THEN FALSE
    ELSE \A i \in 1..Len(runs) : runs[i] = "success"

\* ------------------------------------------------------ item filtering
SurvivesNoUntil(pr) ==
    /\ pr.merged_at # None
    /\ ~(since # None /\ ParseTimestamp(Val(pr.merged_at)) < ParseDate(Val(since)))

SurvivesExclusive(pr) ==
    /\ pr.merged_at # None
    /\ ~(since # None /\ ParseTimestamp(Val(pr.merged_at)) <= ParseDate(Val(since)))
    /\ ~(until # None /\ ParseTimestamp(Val(pr.merged_at)) >= ParseDate(Val(until)))

\* the three `continue` tests of the for loop, negated
Survives(pr) ==
    /\ pr.merged_at # None
    /\ ~(since # None /\ ParseTimestamp(Val(pr.merged_at)) < ParseDate(Val(since)))
    /\ ~(until # None /\ ParseTimestamp(Val(pr.merged_at)) > ParseDate(Val(until)))

\* the params dict of the listing request for page p
ListParams(p) == [state |-> "closed", perPage |-> PerPage, page |-> p]

\* a logged event; query is the query string of a listing request
Event(k, a, o) ==
    [kind |-> k, arg |-> a, ok |-> o,
     query |-> IF k = "list" THEN Some(ListParams(a)) ELSE None]

\* ------------------------------------------------------ transform stage
\* pd.to_datetime(..., errors="coerce").dt.tz_localize(None): the instant of
\* a timestamp string, NaT (None) for a missing one
ToDatetime(o) == IF o = None THEN None ELSE Some(ParseTimestamp(Val(o)))

\* MergedAt - CreatedAt on datetimes: NaT when either side is NaT
TimeDelta(m, c) ==
    IF m = None \/ c = None THEN None ELSE Some(Val(m) - Val(c))

transformPRDataOr(prs) ==
    [i \in 1..Len(prs) |->
        [PRNum |-> prs[i].PRNum,
         CreatedAt |-> ToDatetime(prs[i].CreatedAt),
         MergedAt |-> ToDatetime(prs[i].MergedAt),
         Num_Reviewers |-> prs[i].Num_Reviewers,
         CR_Passed |-> prs[i].CR_Passed,
         Checks_Passed |-> prs[i].Checks_Passed,
         AllQualityGatesPassed |-> prs[i].CR_Passed \/ prs[i].Checks_Passed,
         TimeToMerge |-> TimeDelta(ToDatetime(prs[i].MergedAt),
                                   ToDatetime(prs[i].CreatedAt))]]

\* transformPRData on a non-empty frame: one row per record, in order, with
\* the two derived columns
transformPRData(prs) ==
    [i \in 1..Len(prs) |->
        [PRNum |-> prs[i].PRNum,
         CreatedAt |-> ToDatetime(prs[i].CreatedAt),
         MergedAt |-> ToDatetime(prs[i].MergedAt),
         Num_Reviewers |-> prs[i].Num_Reviewers,
         CR_Passed |-> prs[i].CR_Passed,
         Checks_Passed |-> prs[i].Checks_Passed,
         AllQualityGatesPassed |-> prs[i].CR_Passed /\ prs[i].Checks_Passed,
         TimeToMerge |-> TimeDelta(ToDatetime(prs[i].MergedAt),
                                   ToDatetime(prs[i].CreatedAt))]]

\* indices of the raw files that get an output: parsed and non-empty
RECURSIVE Outputs(_, _)
Outputs(files, i) ==
    IF i > Len(files) THEN <<>>
    ELSE IF files[i] = <<>> THEN Outputs(files, i + 1)
    ELSE <<[name |-> i, rows |-> transformPRData(files[i])]>>
         \o Outputs(files, i + 1)

\* ------------------------------------------------------------- pipeline
\* the variables of getCheckStatus and of processRawFiles before they run
CheckIdle == checkRuns = None /\ checksPassed = None
DirIdle == rawDir = <<>> /\ fi = 0

Init ==
    /\ token \in BOOLEAN
    /\ since \in {None} \cup {Some(d) : d \in Dates}
    /\ until \in {None} \cup {Some(d) : d \in Dates}
    /\ listing \in Listings
    /\ pc = "start"
    /\ page = 0
    /\ data = <<>>
    /\ idx = 0
    /\ prInfo = None
    /\ PRs = <<>>
    /\ spinner = "idle"
    /\ log = <<>>
    /\ rawFiles = <<>>
    /\ transformed = <<>>
    /\ exitCode = None
    /\ reviews = <<>>
    /\ ri = 0
    /\ latestReviewPerUser = EmptyDict
    /\ approved = FALSE
    /\ numReviewers = 0
    /\ CheckIdle
    /\ DirIdle

StartNoTokenTest ==
    /\ pc = "start"
    /\ pc' = "list"
    /\ page' = 1
    /\ PRs' = <<>>
    /\ spinner' = "spinning"
    /\ UNCHANGED <<envVars, data, idx, prInfo, log, rawFiles, transformed,
                   exitCode, reviewVars, checkVars, dirVars>>

\* main calls getMergedPRs: the credential test and the locals' set-up
Start ==
    /\ pc = "start"
    /\ IF ~token
       THEN /\ pc' = "exit"
            /\ exitCode' = Some(1)
            /\ UNCHANGED <<page, PRs, spinner>>
       ELSE /\ pc' = "list"
            /\ page' = 1
            /\ PRs' = <<>>
            /\ spinner' = "spinning"
            /\ UNCHANGED exitCode
    /\ UNCHANGED <<envVars, data, idx, prInfo, log, rawFiles, transformed,
                   reviewVars, checkVars, dirVars>>

RequestFailedDiscard(ev) ==
    /\ log' = Append(log, ev)
    /\ spinner' = "fail"
    /\ pc' = "write"
    /\ PRs' = <<>>
    /\ UNCHANGED <<envVars, page, data, idx, prInfo, rawFiles,
                   transformed, exitCode, reviewVars, checkVars, dirVars>>

RequestFailedReraise(ev) ==
    /\ log' = Append(log, ev)
    /\ spinner' = "fail"
    /\ pc' = "exit"
    /\ exitCode' = Some(1)
    /\ UNCHANGED <<envVars, page, data, idx, prInfo, PRs, rawFiles,
                   transformed, reviewVars, checkVars, dirVars>>

\* a request raised RequestException: the except block, then on to the write
RequestFailed(ev) ==
    /\ log' = Append(log, ev)
    /\ spinner' = "fail"
    /\ pc' = "write"
    /\ UNCHANGED <<envVars, page, data, idx, prInfo, PRs, rawFiles,
                   transformed, exitCode, reviewVars, checkVars, dirVars>>

ListRequestShortPage ==
    /\ pc = "list"
    /\ \/ RequestFailed(Event("list", page, FALSE))
       \/ /\ log' = Append(log, Event("list", page, TRUE))
          /\ data' = PageBody(page)
          /\ IF Len(PageBody(page)) < MaxPageLen
             THEN /\ pc' = "write"
                  /\ spinner' = "ok"
                  /\ UNCHANGED idx
             ELSE /\ pc' = "item"
                  /\ idx' = 1
                  /\ UNCHANGED spinner
          /\ UNCHANGED <<envVars, page, prInfo, PRs, rawFiles, transformed,
                         exitCode, reviewVars, checkVars, dirVars>>

\* one listing request: failure, the empty page that ends the scan, or a
\* page to iterate
ListRequest ==
    /\ pc = "list"
    /\ \/ RequestFailed(Event("list", page, FALSE))
       \/ /\ log' = Append(log, Event("list", page, TRUE))
          /\ data' = PageBody(page)
          /\ IF PageBody(page) = <<>>
             THEN /\ pc' = "write"
                  /\ spinner' = "ok"
                  /\ UNCHANGED idx
             ELSE /\ pc' = "item"
                  /\ idx' = 1
                  /\ UNCHANGED spinner
          /\ UNCHANGED <<envVars, page, prInfo, PRs, rawFiles, transformed,
                         exitCode, reviewVars, checkVars, dirVars>>

\* the page being iterated has put a record into PRs
PageYielded ==
    \E i \in 1..Len(data) : \E j \in 1..Len(PRs) : PRs[j].PRNum = data[i].number

ExamineItemNoSkip ==
    /\ pc = "item"
    /\ IF idx > Len(data)
       THEN /\ pc' = "list"
            /\ page' = page + 1
            /\ UNCHANGED <<idx, prInfo>>
       ELSE /\ prInfo' = Some([PRNum |-> data[idx].number,
                               CreatedAt |-> data[idx].created_at,
                               MergedAt |-> data[idx].merged_at])
            /\ pc' = "reviews"
            /\ UNCHANGED <<idx, page>>
    /\ UNCHANGED <<envVars, data, PRs, spinner, log, rawFiles, transformed,
                   exitCode, reviewVars, checkVars, dirVars>>

ExamineItemEarlyStop ==
    /\ pc = "item"
    /\ IF idx > Len(data)
       THEN /\ IF PageYielded
               THEN pc' = "list" /\ page' = page + 1 /\ UNCHANGED spinner
               ELSE pc' = "write" /\ spinner' = "ok" /\ UNCHANGED page
            /\ UNCHANGED <<idx, prInfo>>
       ELSE IF ~Survives(data[idx])
       THEN /\ idx' = idx + 1
            /\ UNCHANGED <<pc, page, prInfo, spinner>>
       ELSE /\ prInfo' = Some([PRNum |-> data[idx].number,
                               CreatedAt |-> data[idx].created_at,
                               MergedAt |-> data[idx].merged_at])
            /\ pc' = "reviews"
            /\ UNCHANGED <<idx, page, spinner>>
    /\ UNCHANGED <<envVars, data, PRs, log, rawFiles, transformed,
                   exitCode, reviewVars, checkVars, dirVars>>

\* one turn of the for loop up to the first request: end of page, a skipped
\* item, or a surviving item whose record is started
ExamineItem ==
    /\ pc = "item"
    /\ IF idx > Len(data)
       THEN /\ pc' = "list"
            /\ page' = page + 1
            /\ UNCHANGED <<idx, prInfo>>
       ELSE IF ~Survives(data[idx])
       THEN /\ idx' = idx + 1
            /\ UNCHANGED <<pc, page, prInfo>>
       ELSE /\ prInfo' = Some([PRNum |-> data[idx].number,
                               CreatedAt |-> data[idx].created_at,
                               MergedAt |-> data[idx].merged_at])
            /\ pc' = "reviews"
            /\ UNCHANGED <<idx, page>>
    /\ UNCHANGED <<envVars, data, PRs, spinner, log, rawFiles, transformed,
                   exitCode, reviewVars, checkVars, dirVars>>

ReviewRequestIsolated ==
    /\ pc = "reviews"
    /\ \/ /\ log' = Append(log, Event("reviews", Val(prInfo).PRNum, FALSE))
          /\ idx' = idx + 1
          /\ pc' = "item"
          /\ UNCHANGED <<envVars, page, data, prInfo, PRs, spinner, rawFiles,
                         transformed, exitCode, reviewVars, checkVars, dirVars>>
       \/ \E rs \in ReviewBodies :
            /\ log' = Append(log, Event("reviews", Val(prInfo).PRNum, TRUE))
            /\ prInfo' = Some([PRNum |-> Val(prInfo).PRNum,
                               CreatedAt |-> Val(prInfo).CreatedAt,
                               MergedAt |-> Val(prInfo).MergedAt,
                               Num_Reviewers |-> getReviews(rs)[2],
                               CR_Passed |-> getReviews(rs)[1]])
            /\ pc' = "checks"
            /\ UNCHANGED <<envVars, page, data, idx, PRs, spinner, rawFiles,
                           transformed, exitCode, reviewVars, checkVars, dirVars>>

\* the review request of the item in flight and the fold of its response
ReviewRequest ==
    /\ pc = "reviews"
    /\ \/ RequestFailed(Event("reviews", Val(prInfo).PRNum, FALSE))
       \/ \E rs \in ReviewBodies :
            /\ log' = Append(log, Event("reviews", Val(prInfo).PRNum, TRUE))
            /\ prInfo' = Some([PRNum |-> Val(prInfo).PRNum,
                               CreatedAt |-> Val(prInfo).CreatedAt,
                               MergedAt |-> Val(prInfo).MergedAt,
                               Num_Reviewers |-> getReviews(rs)[2],
                               CR_Passed |-> getReviews(rs)[1]])
            /\ pc' = "checks"
            /\ UNCHANGED <<envVars, page, data, idx, PRs, spinner, rawFiles,
                           transformed, exitCode, reviewVars, checkVars, dirVars>>

\* the record of the item in flight, completed with the check result
Completed(passed) ==
    [PRNum |-> Val(prInfo).PRNum,
     CreatedAt |-> Val(prInfo).CreatedAt,
     MergedAt |-> Val(prInfo).MergedAt,
     Num_Reviewers |-> Val(prInfo).Num_Reviewers,
     CR_Passed |-> Val(prInfo).CR_Passed,
     Checks_Passed |-> passed]

CheckRequestKeepsPartial ==
    /\ pc = "checks"
    /\ \/ /\ log' = Append(log, Event("checks", Val(prInfo).PRNum, FALSE))
          /\ spinner' = "fail"
          /\ pc' = "write"
          /\ PRs' = Append(PRs, Val(prInfo))
          /\ UNCHANGED <<envVars, page, data, idx, prInfo, rawFiles,
                         transformed, exitCode, reviewVars, checkVars, dirVars>>
       \/ \E runs \in SeqsUpTo(Conclusions, MaxCheckRuns) :
            /\ log' = Append(log, Event("checks", Val(prInfo).PRNum, TRUE))
            /\ PRs' = Append(PRs, Completed(getCheckStatus(runs)))
            /\ prInfo' = None
            /\ idx' = idx + 1
            /\ pc' = "item"
            /\ UNCHANGED <<envVars, page, data, spinner, rawFiles,
                           transformed, exitCode, reviewVars, checkVars,
                           dirVars>>

CheckRequestDoubleAppend ==
    /\ pc = "checks"
    /\ \/ RequestFailed(Event("checks", Val(prInfo).PRNum, FALSE))
       \/ \E runs \in SeqsUpTo(Conclusions, MaxCheckRuns) :
            /\ log' = Append(log, Event("checks", Val(prInfo).PRNum, TRUE))
            /\ PRs' = PRs \o <<Completed(getCheckStatus(runs)),
                               Completed(getCheckStatus(runs))>>
            /\ prInfo' = None
            /\ idx' = idx + 1
            /\ pc' = "item"
            /\ UNCHANGED <<envVars, page, data, spinner, rawFiles,
                           transformed, exitCode, reviewVars, checkVars,
                           dirVars>>

\* the check-run request of the item in flight; on success the record is
\* completed and appended
CheckRequest ==
    /\ pc = "checks"
    /\ \/ RequestFailed(Event("checks", Val(prInfo).PRNum, FALSE))
       \/ \E runs \in SeqsUpTo(Conclusions, MaxCheckRuns) :
            /\ log' = Append(log, Event("checks", Val(prInfo).PRNum, TRUE))
            /\ PRs' = Append(PRs, Completed(getCheckStatus(runs)))
            /\ prInfo' = None
            /\ idx' = idx + 1
            /\ pc' = "item"
            /\ UNCHANGED <<envVars, page, data, spinner, rawFiles,
                           transformed, exitCode, reviewVars, checkVars, dirVars>>

WriteSnapshotOnSuccess ==
    /\ pc = "write"
    /\ IF spinner = "fail"
       THEN UNCHANGED <<rawFiles, log>>
       ELSE /\ rawFiles' = Append(rawFiles, PRs)
            /\ log' = Append(log, Event("write", Len(PRs), TRUE))
    /\ pc' = "returned"
    /\ UNCHANGED <<envVars, page, data, idx, prInfo, PRs, spinner,
                   transformed, exitCode, reviewVars, checkVars, dirVars>>

\* json.dump of PRs into a new file of data/raw, then the return to main
WriteSnapshot ==
    /\ pc = "write"
    /\ rawFiles' = Append(rawFiles, PRs)
    /\ log' = Append(log, Event("write", Len(PRs), TRUE))
    /\ pc' = "returned"
    /\ UNCHANGED <<envVars, page, data, idx, prInfo, PRs, spinner,
                   transformed, exitCode, reviewVars, checkVars, dirVars>>

\* main after getMergedPRs returned: processRawFiles, the completion log line
\* and the normal end of the process
ProcessRawFiles ==
    /\ pc = "returned"
    /\ transformed' = Outputs(rawFiles, 1)
    /\ exitCode' = Some(0)
    /\ pc' = "exit"
    /\ UNCHANGED <<envVars, page, data, idx, prInfo, PRs, spinner, log,
                   rawFiles, reviewVars, checkVars, dirVars>>

Next ==
    \/ Start
    \/ ListRequest
    \/ ExamineItem
    \/ ReviewRequest
    \/ CheckRequest
    \/ WriteSnapshot
    \/ ProcessRawFiles

Spec == Init /\ [][Next]_vars

\* the scheduler always runs the single process until it exits
FairSpec == Spec /\ WF_vars(Next)

\* ------------------------------------------------- the fold of getReviews
InitReviews ==
    /\ reviews \in SeqsUpTo(Reviews, MaxReviews)
    /\ ri = 1
    /\ latestReviewPerUser = EmptyDict
    /\ approved = FALSE
    /\ numReviewers = 0
    /\ pc = "fold"
    /\ token = TRUE
    /\ since = None
    /\ until = None
    /\ listing = <<>>
    /\ page = 0
    /\ data = <<>>
    /\ idx = 0
    /\ prInfo = None
    /\ PRs = <<>>
    /\ spinner = "idle"
    /\ log = <<>>
    /\ rawFiles = <<>>
    /\ transformed = <<>>
    /\ exitCode = None
    /\ CheckIdle
    /\ DirIdle

pipelineVars == <<envVars, page, data, idx, prInfo, PRs, spinner, log,
                  rawFiles, transformed, exitCode>>

\* one iteration of `for review in reviews`
FoldStep ==
    /\ pc = "fold"
    /\ ri <= Len(reviews)
    /\ latestReviewPerUser' =
          DictSet(latestReviewPerUser, reviews[ri].user, reviews[ri].state)
    /\ ri' = ri + 1
    /\ UNCHANGED <<pc, reviews, approved, numReviewers, pipelineVars,
                   checkVars, dirVars>>

\* after the loop: the two results
FoldReturn ==
    /\ pc = "fold"
    /\ ri > Len(reviews)
    /\ approved' = AnyApproved(latestReviewPerUser)
    /\ numReviewers' = DictLen(latestReviewPerUser)
    /\ pc' = "folded"
    /\ UNCHANGED <<reviews, ri, latestReviewPerUser, pipelineVars,
                   checkVars, dirVars>>

NextReviews == FoldStep \/ FoldReturn

ReviewSpec == InitReviews /\ [][NextReviews]_vars

\* ------------------------------------------------ getCheckStatus alone
\* the variables of the pipeline and of the review fold at rest
PipelineIdle ==
    /\ token = TRUE
    /\ since = None
    /\ until = None
    /\ listing = <<>>
    /\ page = 0
    /\ data = <<>>
    /\ idx = 0
    /\ prInfo = None
    /\ PRs = <<>>
    /\ spinner = "idle"
    /\ rawFiles = <<>>
    /\ exitCode = None

ReviewIdle ==
    /\ reviews = <<>>
    /\ ri = 0
    /\ latestReviewPerUser = EmptyDict
    /\ approved = FALSE
    /\ numReviewers = 0

\* a fetched body: without the "check_runs" key, or with a list of runs
InitCheck ==
    /\ checkRuns \in {None} \cup {Some(l) : l \in SeqsUpTo(Conclusions, MaxRuns)}
    /\ checksPassed = None
    /\ pc = "check"
    /\ log = <<>>
    /\ transformed = <<>>
    /\ PipelineIdle
    /\ ReviewIdle
    /\ DirIdle

\* getCheckStatus from the parsed body to its return
CheckReturn ==
    /\ pc = "check"
    /\ checksPassed' = Some(getCheckStatus(CheckRunsOf(checkRuns)))
    /\ pc' = "checked"
    /\ UNCHANGED <<checkRuns, pipelineVars, reviewVars, dirVars>>

NextCheck == CheckReturn

CheckSpec == InitCheck /\ [][NextCheck]_vars

\* ------------------------------------------------------ processRawFiles
\* An entry of data/raw: whether its name ends in ".json", and what json.load
\* gives for it: None for a JSONDecodeError, else the parsed list of records.
\* An entry is named by its position in listdir order.
NotJsonEntry == [json |-> FALSE, content |-> None]
MalformedEntry == [json |-> TRUE, content |-> None]
SnapshotEntry(prs) == [json |-> TRUE, content |-> Some(prs)]

\* a record as getMergedPRs writes it
Record(n, c, m, k, cr, ck) ==
    [PRNum |-> n, CreatedAt |-> c, MergedAt |-> m, Num_Reviewers |-> k,
     CR_Passed |-> cr, Checks_Passed |-> ck]

\* two snapshots as getMergedPRs writes them, of one and of two records
SampleSnapshots ==
    {<<Record(1, CreatedStamp, Some([day |-> 1, tick |-> 0]), 1, TRUE, TRUE)>>,
     <<Record(1, CreatedStamp, Some([day |-> 1, tick |-> 0]), 1, TRUE, TRUE),
       Record(2, CreatedStamp, Some([day |-> 1, tick |-> 1]), 0, FALSE, FALSE)>>}

DirEntries ==
    {NotJsonEntry, MalformedEntry, SnapshotEntry(<<>>)}
        \cup {SnapshotEntry(prs) : prs \in SampleSnapshots}

FilesIdle ==
    /\ fi = 1
    /\ pc = "files"
    /\ log = <<>>
    /\ transformed = <<>>
    /\ PipelineIdle
    /\ ReviewIdle
    /\ CheckIdle

InitFiles ==
    /\ rawDir \in SeqsUpTo(DirEntries, MaxFiles)
    /\ FilesIdle

filesUnchanged == <<envVars, page, data, idx, prInfo, PRs, spinner, rawFiles,
                    exitCode, reviewVars, checkVars, rawDir>>

ProcessFileNoCatch ==
    /\ pc = "files"
    /\ fi <= Len(rawDir)
    /\ IF ~rawDir[fi].json
       THEN UNCHANGED <<log, transformed, pc>>
       ELSE IF rawDir[fi].content = None
       THEN /\ pc' = "crashed"
            /\ UNCHANGED <<log, transformed>>
       ELSE IF Val(rawDir[fi].content) = <<>>
       THEN /\ log' = Append(log, Event("warning", fi, TRUE))
            /\ UNCHANGED <<transformed, pc>>
       ELSE /\ transformed' =
                  Append(transformed,
                         [name |-> fi,
                          rows |-> transformPRData(Val(rawDir[fi].content))])
            /\ log' = Append(log, Event("saved", fi, TRUE))
            /\ UNCHANGED pc
    /\ fi' = fi + 1
    /\ UNCHANGED filesUnchanged

ProcessFileWritesEmpty ==
    /\ pc = "files"
    /\ fi <= Len(rawDir)
    /\ IF ~rawDir[fi].json
       THEN UNCHANGED <<log, transformed>>
       ELSE IF rawDir[fi].content = None
       THEN /\ log' = Append(log, Event("json_error", fi, FALSE))
            /\ UNCHANGED transformed
       ELSE /\ transformed' =
                  Append(transformed,
                         [name |-> fi,
                          rows |-> transformPRData(Val(rawDir[fi].content))])
            /\ log' = Append(log, Event("saved", fi, TRUE))
    /\ fi' = fi + 1
    /\ UNCHANGED <<pc, filesUnchanged>>

\* one turn of `for filename in os.listdir(rawDataDir)`: an entry that is
\* not a .json file, one that does not decode, an empty one, or one that is
\* transformed and saved
ProcessFile ==
    /\ pc = "files"
    /\ fi <= Len(rawDir)
    /\ IF ~rawDir[fi].json
       THEN UNCHANGED <<log, transformed>>
       ELSE IF rawDir[fi].content = None
       THEN /\ log' = Append(log, Event("json_error", fi, FALSE))
            /\ UNCHANGED transformed
       ELSE IF Val(rawDir[fi].content) = <<>>
       THEN /\ log' = Append(log, Event("warning", fi, TRUE))
            /\ UNCHANGED transformed
       ELSE /\ transformed' =
                  Append(transformed,
                         [name |-> fi,
                          rows |-> transformPRData(Val(rawDir[fi].content))])
            /\ log' = Append(log, Event("saved", fi, TRUE))
    /\ fi' = fi + 1
    /\ UNCHANGED <<pc, filesUnchanged>>

\* the loop over the entries is exhausted: processRawFiles returns
FilesReturn ==
    /\ pc = "files"
    /\ fi > Len(rawDir)
    /\ pc' = "filesdone"
    /\ UNCHANGED <<fi, log, transformed, filesUnchanged>>

NextFiles == ProcessFile \/ FilesReturn

FilesSpec == InitFiles /\ [][NextFiles]_vars

\* ------------------------------------------- the transform of one snapshot
\* timestamps of a record: missing, or one of two instants
TransformTimes ==
    {None, Some([day |-> 0, tick |-> 1]), Some([day |-> 1, tick |-> 0])}

TransformRecords ==
    {Record(1, c, m, 1, cr, ck) :
        <<c, m, cr, ck>> \in TransformTimes \X TransformTimes
                                \X BOOLEAN \X BOOLEAN}

\* the records numbered by position, as distinct PRs
Renumber(prs) == [i \in 1..Len(prs) |-> [prs[i] EXCEPT !.PRNum = i]]

InitTransform ==
    /\ rawDir \in {<<SnapshotEntry(Renumber(prs))>> :
                      prs \in SeqsUpTo(TransformRecords, MaxRows)}
    /\ FilesIdle

TransformSpec == InitTransform /\ [][NextFiles]_vars

\* ================================================================ claims
RECURSIVE Flatten(_)
Flatten(ps) == IF ps = <<>> THEN <<>> ELSE Head(ps) \o Flatten(Tail(ps))

\* every item of the listing, over all pages
AllItems == Flatten(listing)

\* a merge timestamp lies in the inclusive window [since 00:00, until 00:00]
InsideWindow(ts) ==
    LET t == ts.day * TicksPerDay + ts.tick
    IN  /\ since = None \/ t >= Val(since) * TicksPerDay
        /\ until = None \/ t <= Val(until) * TicksPerDay

\* the item is merged and inside the configured window
Qualifies(item) ==
    item.merged_at # None /\ InsideWindow(Val(item.merged_at))

HttpKinds == {"list", "reviews", "checks"}

\* positions of the log holding a failed HTTP request
FailedAt == {i \in 1..Len(log) : log[i].kind \in HttpKinds /\ ~log[i].ok}

\* getMergedPRs has returned to main (the process may have gone on to exit)
Returned == pc = "returned" \/ (pc = "exit" /\ exitCode = Some(0))

Args(k) ==
    LET Pick(e) == e.kind = k
        es == SelectSeq(log, Pick)
    IN  [i \in 1..Len(es) |-> es[i].arg]

OkArgs(k) ==
    LET Pick(e) == e.kind = k /\ e.ok
        es == SelectSeq(log, Pick)
    IN  [i \in 1..Len(es) |-> es[i].arg]

PRNums(prs) == [i \in 1..Len(prs) |-> prs[i].PRNum]

\* C1: every record of every written snapshot, complete or partial, comes
\* from a listing item with a non-null merge timestamp that lies inside the
\* inclusive window [since 00:00:00, until 00:00:00] when one is configured.
C1_RecordsMergedInWindow ==
    \A f \in 1..Len(rawFiles) : \A j \in 1..Len(rawFiles[f]) :
        \E i \in 1..Len(AllItems) :
            /\ AllItems[i].number = rawFiles[f][j].PRNum
            /\ AllItems[i].merged_at = rawFiles[f][j].MergedAt
            /\ AllItems[i].merged_at # None
            /\ InsideWindow(Val(AllItems[i].merged_at))

\* a snapshot holds a PR merged exactly at both bounds while the listing also
\* has an item outside the window or never merged, absent from the snapshot
C1_Witness ==
    /\ since # None /\ until # None
    /\ Len(rawFiles) = 1
    /\ \E j \in 1..Len(rawFiles[1]) :
          /\ ParseTimestamp(Val(rawFiles[1][j].MergedAt)) = ParseDate(Val(since))
          /\ ParseTimestamp(Val(rawFiles[1][j].MergedAt)) = ParseDate(Val(until))
    /\ \E i \in 1..Len(AllItems) :
          /\ ~Qualifies(AllItems[i])
          /\ \A j \in 1..Len(rawFiles[1]) :
                rawFiles[1][j].PRNum # AllItems[i].number

\* C2: when no request fails, the snapshot holds exactly one record for each
\* listing item that is merged and inside the window, and no other record.
C2_CompleteSnapshotExact ==
    (Returned /\ FailedAt = {}) =>
        /\ Len(rawFiles) = 1
        /\ \A i \in 1..Len(AllItems) :
              Cardinality({j \in 1..Len(rawFiles[1]) :
                              rawFiles[1][j].PRNum = AllItems[i].number})
                 = IF Qualifies(AllItems[i]) THEN 1 ELSE 0
        /\ \A j \in 1..Len(rawFiles[1]) :
              \E i \in 1..Len(AllItems) :
                  AllItems[i].number = rawFiles[1][j].PRNum

\* no window, two pages, one merged PR and one closed-unmerged PR: the
\* snapshot has the merged one only
C2_Witness ==
    /\ Returned /\ FailedAt = {}
    /\ since = None /\ until = None
    /\ Len(listing) = 2
    /\ \E i \in 1..Len(AllItems) : AllItems[i].merged_at = None
    /\ Len(rawFiles) = 1 /\ Len(rawFiles[1]) = 1

\* C3: after a failed request the snapshot is still written and holds exactly
\* the records assembled before the failure, in the order of assembly.
C3_PartialSnapshotKept ==
    (Returned /\ FailedAt # {}) =>
        /\ Len(rawFiles) = 1
        /\ rawFiles[1] = PRs
        /\ PRNums(rawFiles[1]) = OkArgs("checks")

\* a failure after one record was assembled: the partial snapshot has it
C3_Witness ==
    /\ Returned /\ FailedAt # {}
    /\ Len(rawFiles) = 1
    /\ Len(rawFiles[1]) >= 1

\* C4: a failed HTTP request is the last HTTP request of the invocation: no
\* retry, no enrichment of the remaining items, no further page.
C4_NoRequestAfterFailure ==
    \A i \in FailedAt : \A j \in (i + 1)..Len(log) :
        log[j].kind \notin HttpKinds

\* the review request of the first item of a page failed while a surviving
\* item was still left on the page, and the process ran to its end
C4_Witness ==
    /\ pc = "exit"
    /\ FailedAt # {}
    /\ \E i \in FailedAt : log[i].kind = "reviews"
    /\ idx < Len(data)
    /\ Survives(data[idx + 1])

\* C5: an invocation that returns, after a complete scan or after a transport
\* failure, has written the snapshot exactly once, after its last request.
C5_WrittenExactlyOnce ==
    /\ Len(Args("write")) = Len(rawFiles)
    /\ Len(rawFiles) <= 1
    /\ Returned =>
          /\ Len(rawFiles) = 1
          /\ log[Len(log)].kind = "write"

\* a halted scan that issued several requests and returned with its one write
C5_Witness ==
    /\ Returned
    /\ FailedAt # {}
    /\ Len(log) >= 4
    /\ Len(rawFiles) = 1

C7_ExactlyNRequests ==
    (Returned /\ FailedAt = {}) => Len(Args("list")) = Len(listing)

\* C7 as the code has it: the run terminates, and with N non-empty pages and
\* no failure the listing requests are those of pages 1..N+1 in order, each
\* once: the N non-empty pages and the empty terminator, fetched once.
C7_PagesRequested ==
    (Returned /\ FailedAt = {}) =>
        Args("list") = [p \in 1..(Len(listing) + 1) |-> p]

C7_Terminates == <>(pc = "exit")

C7_Pagination == C7_Terminates /\ []C7_PagesRequested

\* a complete scan of a two-page listing: three listing requests
C7_Witness ==
    /\ Returned /\ FailedAt = {}
    /\ Len(listing) = 2
    /\ Len(Args("list")) = 3

\* C8: filtering never ends pagination early: a scan that has stopped without
\* any failure has requested the page after every non-empty page it got,
\* whatever was skipped; only the empty page stopped it.
C8_NextPageAfterNonEmpty ==
    \A i \in 1..Len(log) :
        (/\ log[i].kind = "list" /\ log[i].ok
         /\ PageBody(log[i].arg) # <<>>
         /\ FailedAt = {}
         /\ pc \in {"write", "returned", "exit"})
        => \E j \in (i + 1)..Len(log) :
              log[j].kind = "list" /\ log[j].arg = log[i].arg + 1

\* two pages whose items were all skipped, one of them as outside the
\* window: the scan still went on to the empty page
C8_Witness ==
    /\ Returned /\ FailedAt = {}
    /\ Len(listing) = 2
    /\ PRs = <<>>
    /\ \E i \in 1..Len(AllItems) : AllItems[i].merged_at # None
    /\ Len(Args("list")) = 3

\* C9: approved is true exactly when some reviewer's last review in list
\* order has the approved state.
C9_ApprovedIffLastStateApproved ==
    pc = "folded" =>
        (approved <=>
            \E i \in 1..Len(reviews) :
                /\ reviews[i].state = "APPROVED"
                /\ \A j \in (i + 1)..Len(reviews) :
                      reviews[j].user # reviews[i].user)

\* a reviewer approved and later submitted another state, nobody else
\* approves: not approved
C9_Witness ==
    /\ pc = "folded"
    /\ \E i \in 1..Len(reviews) : reviews[i].state = "APPROVED"
    /\ approved = FALSE

\* C10: the reviewer count is the number of distinct reviewer identities of
\* the list, at every point of the fold and in the result.
C10_CountDistinctReviewers ==
    /\ pc \in {"fold", "folded"} =>
          Cardinality(DOMAIN latestReviewPerUser)
             = Cardinality({reviews[i].user : i \in 1..(ri - 1)})
    /\ pc = "folded" =>
          numReviewers = Cardinality({reviews[i].user : i \in 1..Len(reviews)})

\* user A: changes_requested then approved, gives approved and a count of 1
C10_Witness ==
    /\ pc = "folded"
    /\ reviews = <<[user |-> "A", state |-> "CHANGES_REQUESTED"],
                   [user |-> "A", state |-> "APPROVED"]>>
    /\ approved = TRUE
    /\ numReviewers = 1

\* C11: in every record of every snapshot Num_Reviewers is not negative, and
\* a record with no reviewer is not reported as review-approved.
C11_NoReviewerNotApproved ==
    \A f \in 1..Len(rawFiles) : \A j \in 1..Len(rawFiles[f]) :
        /\ rawFiles[f][j].Num_Reviewers >= 0
        /\ rawFiles[f][j].Num_Reviewers = 0 => rawFiles[f][j].CR_Passed = FALSE

\* a snapshot with an unreviewed record and a reviewed, approved one
C11_Witness ==
    /\ Len(rawFiles) = 1
    /\ \E j \in 1..Len(rawFiles[1]) :
          rawFiles[1][j].Num_Reviewers = 0 /\ ~rawFiles[1][j].CR_Passed
    /\ \E j \in 1..Len(rawFiles[1]) :
          rawFiles[1][j].Num_Reviewers = 1 /\ rawFiles[1][j].CR_Passed

\* C12: getCheckStatus is false on an empty list, true on a non-empty list
\* whose conclusions are all success, and false as soon as one conclusion is
\* anything else, a null one included.
C12_CheckAggregation ==
    pc = "checked" =>
        LET l == IF checkRuns = None THEN <<>> ELSE checkRuns[1]
            AllSuccess == \A i \in 1..Len(l) : l[i] = "success"
        IN  /\ Len(l) = 0 => checksPassed = Some(FALSE)
            /\ (Len(l) > 0 /\ AllSuccess) => checksPassed = Some(TRUE)
            /\ (Len(l) > 0 /\ ~AllSuccess) => checksPassed = Some(FALSE)

\* successes and one run still in progress: not passed
C12_Witness ==
    /\ pc = "checked"
    /\ checkRuns # None
    /\ \E i \in 1..Len(checkRuns[1]) : checkRuns[1][i] = "null"
    /\ \E i \in 1..Len(checkRuns[1]) : checkRuns[1][i] = "success"
    /\ checksPassed = Some(FALSE)

\* C13: with the credential missing, getMergedPRs raises before any HTTP
\* request: no listing, review or check-run request is ever issued, and the
\* run ends with the uncaught configuration error.
C13_NoRequestWithoutCredential ==
    ~token =>
        /\ \A i \in 1..Len(log) : log[i].kind \notin HttpKinds
        /\ pc \in {"start", "exit"}
        /\ pc = "exit" => exitCode = Some(1)

\* a run without credential against a non-empty listing has ended
C13_Witness ==
    /\ ~token
    /\ pc = "exit"
    /\ listing # <<>>
    /\ log = <<>>

\* C14: the listing never repeating a PR, no two records of a written
\* snapshot have the same PR number.
C14_UniqueNumbers ==
    (\A i, k \in 1..Len(AllItems) :
        AllItems[i].number = AllItems[k].number => i = k)
    => \A f \in 1..Len(rawFiles) : \A j, k \in 1..Len(rawFiles[f]) :
          rawFiles[f][j].PRNum = rawFiles[f][k].PRNum => j = k

\* a snapshot of two records, taken from two pages
C14_Witness ==
    /\ Len(rawFiles) = 1
    /\ Len(rawFiles[1]) = 2
    /\ Len(listing) = 2

\* the instant of a timestamp on the tick axis
Instant(ts) == ts.day * TicksPerDay + ts.tick

\* the outputs written under the name of entry i
OutputsOf(i) == {k \in 1..Len(transformed) : transformed[k].name = i}

\* entry i is a .json file that decodes to a non-empty list
HasRecords(i) ==
    /\ rawDir[i].json
    /\ rawDir[i].content # None
    /\ rawDir[i].content[1] # <<>>

\* C15: the transform of a non-empty snapshot has exactly one row per record,
\* in input order, with AllQualityGatesPassed = CR_Passed AND Checks_Passed
\* and TimeToMerge = MergedAt - CreatedAt, positive when CreatedAt < MergedAt.
C15_RowPerRecord ==
    (pc = "filesdone" /\ Len(rawDir) = 1 /\ HasRecords(1)) =>
        /\ Len(transformed) = 1
        /\ LET prs == rawDir[1].content[1]
               rows == transformed[1].rows
           IN  /\ Len(rows) = Len(prs)
               /\ \A i \in 1..Len(prs) :
                     /\ rows[i].PRNum = prs[i].PRNum
                     /\ rows[i].AllQualityGatesPassed
                           = (prs[i].CR_Passed /\ prs[i].Checks_Passed)
                     /\ (prs[i].CreatedAt # None /\ prs[i].MergedAt # None) =>
                           /\ rows[i].TimeToMerge # None
                           /\ rows[i].TimeToMerge[1]
                                 = Instant(prs[i].MergedAt[1])
                                     - Instant(prs[i].CreatedAt[1])
                           /\ Instant(prs[i].CreatedAt[1])
                                 < Instant(prs[i].MergedAt[1])
                                 => rows[i].TimeToMerge[1] > 0

\* two records, the first with one gate passed only, the second with both and
\* created before it was merged: two rows, gates false then true, time > 0
C15_Witness ==
    /\ pc = "filesdone"
    /\ Len(transformed) = 1
    /\ Len(transformed[1].rows) = 2
    /\ transformed[1].rows[1].CR_Passed /\ ~transformed[1].rows[1].Checks_Passed
    /\ ~transformed[1].rows[1].AllQualityGatesPassed
    /\ transformed[1].rows[2].AllQualityGatesPassed
    /\ transformed[1].rows[2].TimeToMerge # None
    /\ transformed[1].rows[2].TimeToMerge[1] > 0

\* C16: an entry that does not decode gets no output and does not stop the
\* run: in whatever order the entries come, every entry already visited
\* that decodes to a non-empty list has its output, and the loop goes on to
\* the end of the directory.
C16_MalformedSkipped ==
    /\ pc \in {"files", "filesdone"}
    /\ pc = "filesdone" => fi = Len(rawDir) + 1
    /\ \A i \in 1..(fi - 1) :
          /\ rawDir[i] = MalformedEntry => OutputsOf(i) = {}
          /\ HasRecords(i) =>
                \E k \in OutputsOf(i) :
                    Len(transformed[k].rows) = Len(rawDir[i].content[1])

\* a malformed entry between two snapshots: both snapshots have their output
C16_Witness ==
    /\ pc = "filesdone"
    /\ Len(rawDir) = 3
    /\ HasRecords(1)
    /\ rawDir[2] = MalformedEntry
    /\ HasRecords(3)
    /\ Len(transformed) = 2

\* C17: an empty snapshot gets no output and a warning, not an error, and the
\* remaining entries are processed: a visited .json entry has an output
\* exactly when it decoded and was non-empty.
C17_EmptySkippedWithWarning ==
    /\ pc \in {"files", "filesdone"}
    /\ pc = "filesdone" => fi = Len(rawDir) + 1
    /\ \A i \in 1..(fi - 1) :
          /\ rawDir[i].json =>
                (Cardinality(OutputsOf(i)) = IF HasRecords(i) THEN 1 ELSE 0)
          /\ rawDir[i] = SnapshotEntry(<<>>) =>
                /\ \E k \in 1..Len(log) :
                      log[k].kind = "warning" /\ log[k].arg = i
                /\ \A k \in 1..Len(log) :
                      log[k].arg = i => log[k].kind # "json_error"

\* an empty snapshot first, a snapshot with records after it: one output,
\* for the second
C17_Witness ==
    /\ pc = "filesdone"
    /\ Len(rawDir) >= 2
    /\ rawDir[1] = SnapshotEntry(<<>>)
    /\ HasRecords(2)
    /\ OutputsOf(1) = {}
    /\ OutputsOf(2) # {}

\* the listing requests of the invocation, in the order they were issued
ListEvents ==
    LET Pick(e) == e.kind = "list"
    IN  SelectSeq(log, Pick)

\* C18: every listing request carries state=closed, per_page equal to the
\* configured page size and page equal to the current page number, and the
\* pages requested are 1, 2, 3, ... with none skipped or repeated.
C18_ListingQuery ==
    \A k \in 1..Len(ListEvents) :
        LET q == ListEvents[k].query[1]
        IN  /\ ListEvents[k].arg = k
            /\ q.state = "closed"
            /\ q.page = k
            /\ "per_page" \in DOMAIN q
            /\ q["per_page"] = PerPage

\* the record went through a successful review request and, after it, a
\* successful check-run request, and carries the three fields they fill
Enriched(r) ==
    /\ {"Num_Reviewers", "CR_Passed", "Checks_Passed"} \subseteq DOMAIN r
    /\ \E i \in 1..Len(log) : \E j \in (i + 1)..Len(log) :
          /\ log[i] = Event("reviews", r.PRNum, TRUE)
          /\ log[j] = Event("checks", r.PRNum, TRUE)

\* every record held in memory or written to a snapshot
KeptRecords ==
    {PRs[k] : k \in 1..Len(PRs)}
        \cup UNION {{rawFiles[f][k] : k \in 1..Len(rawFiles[f])} :
                        f \in 1..Len(rawFiles)}

\* C19: a record is kept only after its review request and then its
\* check-run request succeeded, so every record, of a partial snapshot too,
\* has Num_Reviewers, CR_Passed and Checks_Passed; the item whose review or
\* check-run request failed is in no snapshot.
C19_OnlyEnrichedRecords ==
    /\ \A r \in KeptRecords : Enriched(r)
    /\ \A i \in FailedAt :
          log[i].kind \in {"reviews", "checks"} =>
              /\ prInfo # None
              /\ prInfo[1].PRNum = log[i].arg
              /\ \A r \in KeptRecords : r.PRNum # log[i].arg

\* the check-run request of the second surviving item failed after its
\* review request succeeded: the partial snapshot holds the first item only
C19_Witness ==
    /\ Returned
    /\ \E i \in FailedAt :
          /\ log[i].kind = "checks"
          /\ Event("reviews", log[i].arg, TRUE) \in {log[k] : k \in 1..i}
    /\ Len(rawFiles) = 1
    /\ Len(rawFiles[1]) = 1
    /\ rawFiles[1][1].PRNum # prInfo[1].PRNum

\* the requests of the items of a page: for each item that is merged and
\* inside the window its review request then its check-run request
RECURSIVE ItemCalls(_)
ItemCalls(items) ==
    IF items = <<>> THEN <<>>
    ELSE (IF Qualifies(Head(items))
          THEN << <<"reviews", Head(items).number>>,
                  <<"checks", Head(items).number>> >>
          ELSE <<>>) \o ItemCalls(Tail(items))

\* the requests of a scan from page p on, up to the request of the empty page
RECURSIVE PageCalls(_)
PageCalls(p) ==
    IF PageBody(p) = <<>> THEN << <<"list", p>> >>
    ELSE << <<"list", p>> >> \o ItemCalls(PageBody(p)) \o PageCalls(p + 1)

\* the HTTP requests of the invocation, in the order they were issued
HttpEvents ==
    LET Pick(e) == e.kind \in HttpKinds
    IN  SelectSeq(log, Pick)

\* C20: the requests issued so far are always a prefix of: per page its
\* listing request, then for each item of the page that is merged and inside
\* the window one review request followed by one check-run request, nothing
\* for a skipped item; a request is issued only after the previous one
\* succeeded, and a scan that ends without failure has issued them all.
C20_SequentialEnrichment ==
    /\ Len(HttpEvents) <= Len(PageCalls(1))
    /\ \A i \in 1..Len(HttpEvents) :
          /\ <<HttpEvents[i].kind, HttpEvents[i].arg>> = PageCalls(1)[i]
          /\ i < Len(HttpEvents) => HttpEvents[i].ok
    /\ (Returned /\ FailedAt = {}) => Len(HttpEvents) = Len(PageCalls(1))

\* a complete scan of a listing whose first item is skipped and whose second
\* survives: listing requests plus one review and one check-run request
C20_Witness ==
    /\ Returned
    /\ FailedAt = {}
    /\ Len(AllItems) = 2
    /\ ~Qualifies(AllItems[1])
    /\ Qualifies(AllItems[2])
    /\ Args("reviews") = <<AllItems[2].number>>
    /\ Args("checks") = <<AllItems[2].number>>

====
